---- MODULE Spec2Model ----
(***************************************************************************)
(* Model of the embedding pipeline manager of src/src/embeddings.ts:       *)
(* the memoized model load (getExtractor), the instruction prefixing       *)
(* (withPrefix), the output-shape normalization (toMatrix), embedBatch and *)
(* getModelInfo, run by several callers on one cooperative event loop.     *)
(*                                                                         *)
(* An optional value (a possibly-null variable, an omitted option) is a    *)
(* set: {} is null/undefined and {v} is the value v.                       *)
(***************************************************************************)
EXTENDS Integers, Sequences, FiniteSets, TLC

\* Number of calls (each one embedBatch or getModelInfo) issued in a run.
NumCalls == 2
\* Longest text batch passed to embedBatch.
MaxTexts == 2
\* Largest row width the inference engine reports (it reports up to MaxTexts rows).
MaxDim == 2

Procs == 1..NumCalls

Min(a, b) == IF a < b THEN a ELSE b
Max(a, b) == IF a < b THEN b ELSE a

\* x ?? y
Coalesce(x, y) == IF x = {} THEN y ELSE x
\* the value of a non-null optional
Val(x) == CHOOSE v \in x : TRUE

-----------------------------------------------------------------------------
(* Inputs of the callers *)

Words == <<"a", "b", "c", "d">>
TextBatches == {SubSeq(Words, 1, n) : n \in 0..MaxTexts}

\* opts?: { mode?, instruction?, normalize? }; an absent opts reads as all three omitted
AllOptions ==
    [mode : {{}, {"query"}, {"passage"}},
     instruction : {{}, {"none"}, {"e5"}},
     normalize : {{}, {TRUE}, {FALSE}}]
NoOptions == [mode |-> {}, instruction |-> {}, normalize |-> {}]
\* the option records the concurrent callers draw from
Options ==
    {NoOptions, [mode |-> {"query"}, instruction |-> {"none"}, normalize |-> {FALSE}]}
\* request bodies of POST /v1/embeddings that pass the schema: input is one string
\* or a list of strings, encoding_format may be omitted, the options are omitted
Inputs ==
    {[kind |-> "string", value |-> Words[1]]}
    \cup {[kind |-> "array", value |-> texts] : texts \in TextBatches}
Bodies ==
    [input : Inputs, encoding_format : {{}, {"base64"}}, opts : {NoOptions}]
\* the options of getModelInfo's warmup call
WarmupTexts == <<"warmup">>
WarmupOptions == [mode |-> {"passage"}, instruction |-> {"e5"}, normalize |-> {}]

-----------------------------------------------------------------------------
(* Outputs of the inference engine.  kind "tensor": an object with data    *)
(* and an array dims; "flat": a Float32Array; "array": a JS array of items;*)
(* "other": anything else (null, a number, a string, a plain object).      *)
(* An item is a Float32Array ("f32"), an object whose data is a            *)
(* Float32Array ("wrapped"), a plain number[] ("numarr") or a value with   *)
(* no map method ("scalar").                                               *)

\* the numbers k+1 .. k+d
Run(k, d) == [c \in 1..d |-> k + c]
RECURSIVE Product(_)
Product(s) == IF s = <<>> THEN 1 ELSE Head(s) * Product(Tail(s))

Tensor(dims) == [kind |-> "tensor", dims |-> dims, data |-> Run(0, Product(dims)), items |-> <<>>]
Flat(d) == [kind |-> "flat", dims |-> <<>>, data |-> Run(0, d), items |-> <<>>]
\* a flat buffer holding the j-th run of d numbers
FlatRow(j, d) == [kind |-> "flat", dims |-> <<>>, data |-> Run((j - 1) * d, d), items |-> <<>>]
Item(k, data) == [kind |-> k, data |-> data]
Array(items) == [kind |-> "array", dims |-> <<>>, data |-> <<>>, items |-> items]
Other == [kind |-> "other", dims |-> <<>>, data |-> <<>>, items |-> <<>>]

ItemKinds == {"f32", "wrapped", "numarr"}
TensorOutputs ==
    {Tensor(<<d>>) : d \in 1..MaxDim}
    \cup {Tensor(<<n, d>>) : n \in 1..MaxTexts, d \in 1..MaxDim}
FlatOutputs == {Flat(d) : d \in 0..MaxDim} \cup {FlatRow(j, MaxDim) : j \in 2..MaxTexts}
\* n items of one kind and one width d, item j holding the j-th run of d numbers
UniformArrays ==
    {Array([j \in 1..n |-> Item(k, Run((j - 1) * d, d))]) :
        n \in 0..MaxTexts, k \in ItemKinds, d \in {MaxDim}}
\* items of decreasing widths MaxDim, MaxDim - 1
RaggedArrays ==
    {Array(<<Item("f32", Run(0, MaxDim)), Item("f32", Run(MaxDim, MaxDim - 1))>>)}
\* a plain array of numbers: its items have no map method
ScalarArrays == {Array(<<Item("scalar", <<>>)>>)}
Outputs ==
    TensorOutputs \cup FlatOutputs \cup UniformArrays \cup RaggedArrays
    \cup ScalarArrays \cup {Other}

-----------------------------------------------------------------------------
(* Pure functions of embeddings.ts *)

\* withPrefix with the two prefixes exchanged
withPrefixSwapped(texts, mode, instruction) ==
    IF instruction = "e5"
    THEN LET prefix == IF mode = "query" THEN "passage: " ELSE "query: "
         IN [j \in 1..Len(texts) |-> prefix \o texts[j]]
    ELSE texts

\* texts.map((t) => prefix + t), or texts
withPrefix(texts, mode, instruction) ==
    IF instruction = "e5"
    THEN LET prefix == IF mode = "query" THEN "query: " ELSE "passage: "
         IN [j \in 1..Len(texts) |-> prefix \o texts[j]]
    ELSE texts

\* slice that always starts at index 0
SliceFromStart(s, a, b) == SubSeq(s, 1, Min(b - a, Len(s)))

\* Array.prototype.slice(a, b) for 0 <= a <= b
Slice(s, a, b) == SubSeq(s, a + 1, Min(b, Len(s)))

\* one item of Case 3: the row it becomes, or a thrown TypeError
ItemRow(v) ==
    IF v.kind = "f32" THEN [err |-> "none", row |-> v.data]
    ELSE IF v.kind = "wrapped" THEN [err |-> "none", row |-> v.data]
    ELSE IF v.kind = "numarr" THEN [err |-> "none", row |-> v.data]
    ELSE [err |-> "TypeError", row |-> <<>>]

\* toMatrix(output) run when modelDim holds dim: the rows it returns or the
\* error it throws, and the modelDim it leaves
toMatrix(output, dim) ==
    IF output.kind = "tensor"
    THEN LET dims == output.dims
             n == Max(1, IF Len(dims) >= 1 THEN dims[1] ELSE 1)
             d == IF Len(dims) > 1 THEN dims[Len(dims)] ELSE Len(output.data)
         IN [err |-> "none",
             rows |-> [i \in 1..n |-> Slice(output.data, (i - 1) * d, i * d)],
             dim |-> {d}]
    ELSE IF output.kind = "flat"
    THEN [err |-> "none", rows |-> <<output.data>>, dim |-> {Len(output.data)}]
    ELSE IF output.kind = "array"
    THEN LET mapped == [j \in 1..Len(output.items) |-> ItemRow(output.items[j])]
         IN IF \E j \in 1..Len(mapped) : mapped[j].err # "none"
            THEN [err |-> "TypeError", rows |-> <<>>, dim |-> dim]
            ELSE LET rows == [j \in 1..Len(mapped) |-> mapped[j].row]
                 IN [err |-> "none", rows |-> rows,
                     dim |-> IF Len(rows) >= 1 THEN {Len(rows[1])} ELSE dim]
    ELSE [err |-> "UnexpectedShape", rows |-> <<>>, dim |-> dim]

-----------------------------------------------------------------------------
(* State *)

VARIABLES
    extractorPromise,   \* {} or {p}: the memoized promise, an index of promises
    promises,           \* the promises pipeline() has returned: "pending", "fulfilled", "rejected"
    modelDim,           \* {} or {d}
    pc,                 \* where each call stands
    call,               \* the operation and arguments of each running call
    awaiting,           \* the promise each call got from getExtractor
    args,               \* what each call has passed to the inference engine and awaits
    failure,            \* the error each failed call threw, "none" otherwise
    inferCalls,         \* number of invocations of the inference engine
    lastOut,            \* the inference output last delivered to a call
    ret,                \* the last return or throw of embedBatch / getModelInfo, with its input
    req,                \* the locals of each running POST /v1/embeddings handler
    res                 \* the last response of the POST /v1/embeddings handler

vars == <<extractorPromise, promises, modelDim, pc, call, awaiting, args,
          failure, inferCalls, lastOut, ret, req, res>>

NoCall == [op |-> "none", texts |-> <<>>, opts |-> NoOptions]
NoArgs == [texts |-> <<>>, pooling |-> "none", normalize |-> {}]
NoRet ==
    [caller |-> 0, op |-> "none", texts |-> <<>>, ok |-> TRUE, rows |-> <<>>,
     dim |-> {}, err |-> "none"]

\* embedBatch(texts) of call i returns rows; getModelInfo() of call i returns dim
Returned(i, op, texts, rows, dim) ==
    [caller |-> i, op |-> op, texts |-> texts, ok |-> TRUE, rows |-> rows,
     dim |-> dim, err |-> "none"]
\* operation op of call i throws e
Thrown(i, op, texts, e) ==
    [caller |-> i, op |-> op, texts |-> texts, ok |-> FALSE, rows |-> <<>>,
     dim |-> {}, err |-> e]

\* the locals of the handler: inputs, body.encoding_format, vectors and data; with
\* them, whether modelDim was known as the request came in and how many engine
\* calls the request has made
NoReq ==
    [active |-> FALSE, inputs |-> <<>>, encoding |-> "none", vectors |-> <<>>,
     data |-> <<>>, dimKnown |-> FALSE, infers |-> 0]
NoRes ==
    [caller |-> 0, status |-> 0, inputs |-> <<>>, encoding |-> "none",
     vectors |-> <<>>, data |-> <<>>, dimKnown |-> FALSE, infers |-> 0]
\* res.json(...) / res.status(status).json(...) of the handler of call i
Response(i, status, data) ==
    [caller |-> i, status |-> status, inputs |-> req[i].inputs,
     encoding |-> req[i].encoding, vectors |-> req[i].vectors, data |-> data,
     dimKnown |-> req[i].dimKnown, infers |-> req[i].infers]

Init ==
    /\ extractorPromise = {}
    /\ modelDim = {}
    /\ promises = <<>>
    /\ pc = [i \in Procs |-> "idle"]
    /\ call = [i \in Procs |-> NoCall]
    /\ awaiting = [i \in Procs |-> {}]
    /\ args = [i \in Procs |-> NoArgs]
    /\ failure = [i \in Procs |-> "none"]
    /\ inferCalls = 0
    /\ lastOut = Other
    /\ ret = NoRet
    /\ req = [i \in Procs |-> NoReq]
    /\ res = NoRes

-----------------------------------------------------------------------------
(* Operations.  A call runs without interruption up to its next await; the *)
(* continuation of an await is one step.  The locals of a call (call,      *)
(* awaiting, args) are dropped when it returns or throws.                  *)

\* opts?.mode ?? "passage", opts?.instruction ?? "e5", opts?.normalize ?? true
Mode(opts) == Val(Coalesce(opts.mode, {"passage"}))
Instruction(opts) == Val(Coalesce(opts.instruction, {"e5"}))
Normalize(opts) == Val(Coalesce(opts.normalize, {TRUE}))

\* getExtractor without the memo test: every caller starts a load
getExtractorNoMemo(i) ==
    /\ promises' = Append(promises, "pending")
    /\ extractorPromise' = {Len(promises) + 1}
    /\ awaiting' = [awaiting EXCEPT ![i] = extractorPromise']

\* getExtractor that starts a new load when the memoized one has failed
getExtractorRetry(i) ==
    /\ IF extractorPromise = {} \/ promises[Val(extractorPromise)] = "rejected"
       THEN /\ promises' = Append(promises, "pending")
            /\ extractorPromise' = {Len(promises) + 1}
       ELSE UNCHANGED <<extractorPromise, promises>>
    /\ awaiting' = [awaiting EXCEPT ![i] = extractorPromise']

\* getExtractor(), called by call i: installs the promise of a new pipeline()
\* call when none is memoized, and hands the memoized promise to the caller
getExtractor(i) ==
    /\ IF extractorPromise = {}
       THEN /\ promises' = Append(promises, "pending")
            /\ extractorPromise' = {Len(promises) + 1}
       ELSE UNCHANGED <<extractorPromise, promises>>
    /\ awaiting' = [awaiting EXCEPT ![i] = extractorPromise']

\* the embedBatch of call i has returned: a caller's call is over, a getModelInfo goes on
AfterEmbed(i, op) ==
    IF op = "getModelInfo"
    THEN /\ pc' = [pc EXCEPT ![i] = "infoResume"]
         /\ call' = [call EXCEPT ![i] = [op |-> op, texts |-> <<>>, opts |-> NoOptions]]
    ELSE /\ pc' = [pc EXCEPT ![i] = IF req[i].active THEN "postResume" ELSE "done"]
         /\ call' = [call EXCEPT ![i] = NoCall]

\* embedBatch without the empty-batch return
embedBatchNoFastPath(i, op, texts, opts) ==
    /\ getExtractor(i)
    /\ pc' = [pc EXCEPT ![i] = "awaitExtractor"]
    /\ call' = [call EXCEPT ![i] = [op |-> op, texts |-> texts, opts |-> opts]]
    /\ UNCHANGED ret

\* embedBatch(texts, opts), called by operation op of call i, up to its first await
embedBatch(i, op, texts, opts) ==
    IF Len(texts) = 0
    THEN /\ AfterEmbed(i, op)
         /\ ret' = Returned(i, "embedBatch", texts, <<>>, {})
         /\ UNCHANGED <<extractorPromise, promises, awaiting>>
    ELSE /\ getExtractor(i)
         /\ pc' = [pc EXCEPT ![i] = "awaitExtractor"]
         /\ call' = [call EXCEPT ![i] = [op |-> op, texts |-> texts, opts |-> opts]]
         /\ UNCHANGED ret

\* a caller calls embedBatch(texts, opts)
EmbedBatch(i, texts, opts) ==
    /\ pc[i] = "idle"
    /\ embedBatch(i, "embedBatch", texts, opts)
    /\ UNCHANGED <<modelDim, args, failure, inferCalls, lastOut, req, res>>

\* getModelInfo that warms up whether or not the dimension is known
GetModelInfoAlwaysWarm(i) ==
    /\ pc[i] = "idle"
    /\ embedBatch(i, "getModelInfo", WarmupTexts, WarmupOptions)
    /\ UNCHANGED <<modelDim, args, failure, inferCalls, lastOut, req, res>>

\* a caller calls getModelInfo()
GetModelInfo(i) ==
    /\ pc[i] = "idle"
    /\ IF modelDim = {}
       THEN embedBatch(i, "getModelInfo", WarmupTexts, WarmupOptions)
       ELSE /\ pc' = [pc EXCEPT ![i] = "done"]
            /\ ret' = Returned(i, "getModelInfo", <<>>, <<>>, modelDim)
            /\ UNCHANGED <<extractorPromise, promises, awaiting, call>>
    /\ UNCHANGED <<modelDim, args, failure, inferCalls, lastOut, req, res>>

\* the model load behind promise p succeeds / fails
LoadResolve(p) ==
    /\ promises[p] = "pending"
    /\ promises' = [promises EXCEPT ![p] = "fulfilled"]
    /\ UNCHANGED <<extractorPromise, modelDim, pc, call, awaiting, args,
                   failure, inferCalls, lastOut, ret, req, res>>

LoadReject(p) ==
    /\ promises[p] = "pending"
    /\ promises' = [promises EXCEPT ![p] = "rejected"]
    /\ UNCHANGED <<extractorPromise, modelDim, pc, call, awaiting, args,
                   failure, inferCalls, lastOut, ret, req, res>>

\* ExtractorReady that does not wait for the load to settle
ExtractorReadyEarly(i) ==
    /\ pc[i] = "awaitExtractor"
    /\ args' = [args EXCEPT ![i] =
                  [texts |-> withPrefix(call[i].texts, Mode(call[i].opts),
                                        Instruction(call[i].opts)),
                   pooling |-> "mean",
                   normalize |-> {Normalize(call[i].opts)}]]
    /\ inferCalls' = inferCalls + 1
    /\ req' = [req EXCEPT ![i].infers = IF req[i].active THEN @ + 1 ELSE @]
    /\ pc' = [pc EXCEPT ![i] = "awaitInfer"]
    /\ awaiting' = [awaiting EXCEPT ![i] = {}]
    /\ UNCHANGED <<extractorPromise, promises, modelDim, call, failure, lastOut, ret, res>>

\* embedBatch resumes with the extractor: prefixes the texts and invokes the engine
ExtractorReady(i) ==
    /\ pc[i] = "awaitExtractor"
    /\ promises[Val(awaiting[i])] = "fulfilled"
    /\ args' = [args EXCEPT ![i] =
                  [texts |-> withPrefix(call[i].texts, Mode(call[i].opts),
                                        Instruction(call[i].opts)),
                   pooling |-> "mean",
                   normalize |-> {Normalize(call[i].opts)}]]
    /\ inferCalls' = inferCalls + 1
    /\ req' = [req EXCEPT ![i].infers = IF req[i].active THEN @ + 1 ELSE @]
    /\ pc' = [pc EXCEPT ![i] = "awaitInfer"]
    /\ awaiting' = [awaiting EXCEPT ![i] = {}]
    /\ UNCHANGED <<extractorPromise, promises, modelDim, call, failure, lastOut, ret, res>>

\* operation call[i].op of call i throws e; the catch of a POST handler that
\* made the call answers 500
Throw(i, e) ==
    /\ pc' = [pc EXCEPT ![i] = "failed"]
    /\ failure' = [failure EXCEPT ![i] = e]
    /\ ret' = Thrown(i, call[i].op, call[i].texts, e)
    /\ call' = [call EXCEPT ![i] = NoCall]
    /\ awaiting' = [awaiting EXCEPT ![i] = {}]
    /\ args' = [args EXCEPT ![i] = NoArgs]
    /\ IF req[i].active
       THEN /\ res' = Response(i, 500, <<>>)
            /\ req' = [req EXCEPT ![i] = NoReq]
       ELSE UNCHANGED <<req, res>>

\* ExtractorFailed that swallows the load's error and returns an empty matrix
ExtractorFailedReturnsEmpty(i) ==
    /\ pc[i] = "awaitExtractor"
    /\ promises[Val(awaiting[i])] = "rejected"
    /\ AfterEmbed(i, call[i].op)
    /\ ret' = Returned(i, "embedBatch", call[i].texts, <<>>, {})
    /\ awaiting' = [awaiting EXCEPT ![i] = {}]
    /\ UNCHANGED <<extractorPromise, promises, modelDim, args, failure, inferCalls,
                   lastOut, req, res>>

\* ExtractorFailed that goes on to invoke the engine after the failed load
ExtractorFailedInvokes(i) ==
    /\ pc[i] = "awaitExtractor"
    /\ promises[Val(awaiting[i])] = "rejected"
    /\ inferCalls' = inferCalls + 1
    /\ pc' = [pc EXCEPT ![i] = "awaitInfer"]
    /\ awaiting' = [awaiting EXCEPT ![i] = {}]
    /\ UNCHANGED <<extractorPromise, promises, modelDim, call, args, failure, lastOut,
                   ret, req, res>>

\* the awaited load has failed: embedBatch (and a getModelInfo awaiting it) throws
ExtractorFailed(i) ==
    /\ pc[i] = "awaitExtractor"
    /\ promises[Val(awaiting[i])] = "rejected"
    /\ Throw(i, "LoadError")
    /\ UNCHANGED <<extractorPromise, promises, modelDim, inferCalls, lastOut>>

\* the engine answers call i with output: embedBatch resumes and runs toMatrix
InferReturn(i, output) ==
    /\ pc[i] = "awaitInfer"
    /\ lastOut' = output
    /\ LET m == toMatrix(output, modelDim)
       IN /\ modelDim' = m.dim
          /\ IF m.err = "none"
             THEN /\ AfterEmbed(i, call[i].op)
                  /\ ret' = Returned(i, "embedBatch", call[i].texts, m.rows, {})
                  /\ args' = [args EXCEPT ![i] = NoArgs]
                  /\ req' = IF req[i].active /\ call[i].op = "embedBatch"
                            THEN [req EXCEPT ![i].vectors = m.rows]
                            ELSE req
                  /\ UNCHANGED <<awaiting, failure, res>>
             ELSE Throw(i, m.err)
    /\ UNCHANGED <<extractorPromise, promises, inferCalls>>

\* InferFail that invokes the engine again instead of failing
InferFailRetries(i) ==
    /\ pc[i] = "awaitInfer"
    /\ inferCalls' = inferCalls + 1
    /\ UNCHANGED <<extractorPromise, promises, modelDim, pc, call, awaiting, args,
                   failure, lastOut, ret, req, res>>

\* InferFail that also forgets the memoized extractor
InferFailDropsHandle(i) ==
    /\ pc[i] = "awaitInfer"
    /\ Throw(i, "InferenceError")
    /\ extractorPromise' = {}
    /\ UNCHANGED <<promises, modelDim, inferCalls, lastOut>>

\* the engine call of call i throws
InferFail(i) ==
    /\ pc[i] = "awaitInfer"
    /\ Throw(i, "InferenceError")
    /\ UNCHANGED <<extractorPromise, promises, modelDim, inferCalls, lastOut>>

\* getModelInfo resumes after its warmup and returns { model, dim: modelDim ?? null }
InfoReturn(i) ==
    /\ pc[i] = "infoResume"
    /\ pc' = [pc EXCEPT ![i] = "done"]
    /\ call' = [call EXCEPT ![i] = NoCall]
    /\ ret' = Returned(i, "getModelInfo", <<>>, <<>>, modelDim)
    /\ IF req[i].active
       THEN /\ res' = Response(i, 200, req[i].data)
            /\ req' = [req EXCEPT ![i] = NoReq]
       ELSE UNCHANGED <<req, res>>
    /\ UNCHANGED <<extractorPromise, promises, modelDim, awaiting, args,
                   failure, inferCalls, lastOut>>

\* the body fails the schema: the handler answers 400 and calls nothing
PostInvalid(i) ==
    /\ pc[i] = "idle"
    /\ pc' = [pc EXCEPT ![i] = "done"]
    /\ res' = [NoRes EXCEPT !.caller = i, !.status = 400]
    /\ UNCHANGED <<extractorPromise, promises, modelDim, call, awaiting, args,
                   failure, inferCalls, lastOut, ret, req>>

\* POST /v1/embeddings with a body that passes the schema, up to the first await:
\* the schema's defaults are filled in and embedBatch is called on the inputs
Post(i, body) ==
    /\ pc[i] = "idle"
    /\ LET inputs == IF body.input.kind = "array" THEN body.input.value
                     ELSE <<body.input.value>>
           opts == [mode |-> {Mode(body.opts)},
                    instruction |-> {Instruction(body.opts)},
                    normalize |-> {Normalize(body.opts)}]
           r == [NoReq EXCEPT !.active = TRUE, !.inputs = inputs,
                              !.encoding = Val(Coalesce(body.encoding_format, {"float"})),
                              !.dimKnown = (modelDim # {})]
       IN /\ req' = [req EXCEPT ![i] = r]
          /\ IF Len(inputs) = 0
             THEN /\ pc' = [pc EXCEPT ![i] = "postResume"]
                  /\ call' = [call EXCEPT ![i] = NoCall]
                  /\ ret' = Returned(i, "embedBatch", inputs, <<>>, {})
                  /\ UNCHANGED <<extractorPromise, promises, awaiting>>
             ELSE /\ getExtractor(i)
                  /\ pc' = [pc EXCEPT ![i] = "awaitExtractor"]
                  /\ call' = [call EXCEPT ![i] =
                                 [op |-> "embedBatch", texts |-> inputs, opts |-> opts]]
                  /\ UNCHANGED ret
    /\ UNCHANGED <<modelDim, args, failure, inferCalls, lastOut, res>>

\* float32ToBase64(vec): the base64 text of the float32 bytes of vec, kept as the
\* floats it encodes
float32ToBase64(vec) == [base64 |-> vec]

\* vectors.map((v, i) => ({ object: "embedding", index: i, embedding: ... }))
Data(vectors, encoding) ==
    [k \in 1..Len(vectors) |->
        [object |-> "embedding", index |-> k - 1,
         embedding |-> IF encoding = "base64" THEN float32ToBase64(vectors[k])
                       ELSE vectors[k]]]

\* PostResume that answers without calling getModelInfo
PostResumeNoInfo(i) ==
    /\ pc[i] = "postResume"
    /\ pc' = [pc EXCEPT ![i] = "done"]
    /\ res' = Response(i, 200, Data(req[i].vectors, req[i].encoding))
    /\ req' = [req EXCEPT ![i] = NoReq]
    /\ UNCHANGED <<extractorPromise, promises, modelDim, call, awaiting, args,
                   failure, inferCalls, lastOut, ret>>

\* the handler resumes with the vectors of embedBatch: builds data and calls
\* getModelInfo, which returns at once when modelDim is known (the response
\* follows) and runs its warmup otherwise
PostResume(i) ==
    /\ pc[i] = "postResume"
    /\ LET data == Data(req[i].vectors, req[i].encoding)
       IN IF modelDim = {}
          THEN /\ req' = [req EXCEPT ![i].data = data]
               /\ getExtractor(i)
               /\ pc' = [pc EXCEPT ![i] = "awaitExtractor"]
               /\ call' = [call EXCEPT ![i] =
                              [op |-> "getModelInfo", texts |-> WarmupTexts,
                               opts |-> WarmupOptions]]
               /\ UNCHANGED <<ret, res>>
          ELSE /\ pc' = [pc EXCEPT ![i] = "done"]
               /\ ret' = Returned(i, "getModelInfo", <<>>, <<>>, modelDim)
               /\ res' = Response(i, 200, data)
               /\ req' = [req EXCEPT ![i] = NoReq]
               /\ UNCHANGED <<extractorPromise, promises, awaiting, call>>
    /\ UNCHANGED <<modelDim, args, failure, inferCalls, lastOut>>

Next ==
    \/ \E i \in Procs, texts \in TextBatches, opts \in Options : EmbedBatch(i, texts, opts)
    \/ \E i \in Procs : GetModelInfo(i)
    \/ \E p \in 1..Len(promises) : LoadResolve(p)
    \/ \E p \in 1..Len(promises) : LoadReject(p)
    \/ \E i \in Procs : ExtractorReady(i)
    \/ \E i \in Procs : ExtractorFailed(i)
    \/ \E i \in Procs, output \in Outputs : InferReturn(i, output)
    \/ \E i \in Procs : InferFail(i)
    \/ \E i \in Procs : InfoReturn(i)

Spec == Init /\ [][Next]_vars

\* One caller, drawing its options from every combination of given and omitted fields.
OneCaller == {1}
NextOptions ==
    \/ \E i \in OneCaller, texts \in TextBatches, opts \in AllOptions : EmbedBatch(i, texts, opts)
    \/ \E i \in OneCaller : GetModelInfo(i)
    \/ \E p \in 1..Len(promises) : LoadResolve(p)
    \/ \E p \in 1..Len(promises) : LoadReject(p)
    \/ \E i \in OneCaller : ExtractorReady(i)
    \/ \E i \in OneCaller : ExtractorFailed(i)
    \/ \E i \in OneCaller, output \in Outputs : InferReturn(i, output)
    \/ \E i \in OneCaller : InferFail(i)
    \/ \E i \in OneCaller : InfoReturn(i)

SpecOptions == Init /\ [][NextOptions]_vars

\* The HTTP server: one POST /v1/embeddings request among GET /healthz requests,
\* which are calls of getModelInfo.
NextServer ==
    \/ \E i \in OneCaller, body \in Bodies : Post(i, body)
    \/ \E i \in OneCaller : PostInvalid(i)
    \/ \E i \in Procs \ OneCaller : GetModelInfo(i)
    \/ \E p \in 1..Len(promises) : LoadResolve(p)
    \/ \E p \in 1..Len(promises) : LoadReject(p)
    \/ \E i \in Procs : ExtractorReady(i)
    \/ \E i \in Procs : ExtractorFailed(i)
    \/ \E i \in Procs, output \in Outputs : InferReturn(i, output)
    \/ \E i \in Procs : InferFail(i)
    \/ \E i \in Procs : PostResume(i)
    \/ \E i \in Procs : InfoReturn(i)

SpecServer == Init /\ [][NextServer]_vars

-----------------------------------------------------------------------------
(* Properties *)

\* the inference output is one of the three shapes the normalizer is specified for:
\* a tensor with dims of rank >= 1, one flat buffer, a sequence of buffers or of
\* objects wrapping a buffer
Admissible(o) ==
    \/ o.kind = "tensor" /\ Len(o.dims) >= 1
    \/ o.kind = "flat"
    \/ o.kind = "array" /\ \A j \in 1..Len(o.items) : o.items[j].kind \in ItemKinds

\* the admissible output holds exactly n vectors of one width
Conforming(o, n) ==
    \/ o.kind = "tensor" /\ Len(o.dims) = 1 /\ n = 1 /\ Len(o.data) = o.dims[1]
    \/ o.kind = "tensor" /\ Len(o.dims) = 2 /\ o.dims[1] = n
                         /\ Len(o.data) = o.dims[1] * o.dims[2]
    \/ o.kind = "flat" /\ n = 1
    \/ /\ o.kind = "array" /\ Len(o.items) = n
       /\ \A j \in 1..n : /\ o.items[j].kind \in ItemKinds
                          /\ Len(o.items[j].data) = Len(o.items[1].data)

\* all rows of a matrix have one length
EqualRows(rows) == \A r \in 1..Len(rows) : Len(rows[r]) = Len(rows[1])

\* the last event is the successful return of an embedBatch on a non-empty batch
EmbedSucceeded == ret.op = "embedBatch" /\ ret.ok /\ ret.texts # <<>>

\* a call has got past the start of a non-empty embedBatch
LoadNeeded ==
    \/ \E i \in Procs : pc[i] \in {"awaitExtractor", "awaitInfer", "infoResume", "failed"}
    \/ inferCalls > 0

\* C1: whatever the interleaving of the calls, pipeline() is invoked at most once, and
\* exactly once as soon as a non-empty embedBatch (or a warmup) has started; a call
\* fails with the load's error only if that load failed and with a shape error only
\* on an output of no admissible shape, and a call that succeeds returns the matrix
\* of the output its own inference call delivered.
C1_SingleLoadAllSucceed ==
    /\ Len(promises) <= 1
    /\ LoadNeeded => Len(promises) = 1
    /\ \A i \in Procs : failure[i] = "LoadError" => promises[Val(extractorPromise)] = "rejected"
    /\ (~ret.ok /\ ret.err \in {"TypeError", "UnexpectedShape"}) => ~Admissible(lastOut)
    /\ EmbedSucceeded => ret.rows = toMatrix(lastOut, {}).rows

\* every call has gone through the engine and returned, after a single load
C1_Witness ==
    /\ \A i \in Procs : pc[i] = "done"
    /\ inferCalls = NumCalls
    /\ promises = <<"fulfilled">>
    /\ EmbedSucceeded
    /\ Len(ret.rows) = Len(ret.texts)

\* C2: a successful embedBatch on N >= 1 texts returns exactly N rows of one length,
\* here for the outputs that do hold N vectors of one width.
C2_RowPerText ==
    (EmbedSucceeded /\ Conforming(lastOut, Len(ret.texts)))
        => (Len(ret.rows) = Len(ret.texts) /\ EqualRows(ret.rows))

\* C3: once modelDim is non-null no step changes it.
C3_DimImmutable == [][modelDim # {} => modelDim' = modelDim]_vars

\* C4: a non-empty embedBatch or a warmup getModelInfo that starts after the load has
\* failed invokes pipeline() again.
C4_RetryAfterFailedLoad ==
    [][\A i \in Procs :
          (/\ pc[i] = "idle" /\ pc'[i] = "awaitExtractor"
           /\ extractorPromise # {}
           /\ promises[Val(extractorPromise)] = "rejected")
          => Len(promises') = Len(promises) + 1]_vars

\* call i is called as embedBatch([], opts) in this step
EmptyBatchCalled(i) ==
    /\ pc[i] = "idle" /\ pc'[i] # "idle"
    /\ \/ call'[i].op = "embedBatch" /\ call'[i].texts = <<>>
       \/ call'[i] = NoCall /\ ret'.op = "embedBatch"

\* C5: embedBatch on an empty batch returns the empty matrix at once, in every state
\* of the manager, without starting a load, invoking the engine or touching the
\* promise or the dimension.
C5_EmptyBatchFrame ==
    [][\A i \in Procs :
          EmptyBatchCalled(i)
          => /\ pc'[i] = "done"
             /\ ret' = Returned(i, "embedBatch", <<>>, <<>>, {})
             /\ UNCHANGED <<extractorPromise, promises, modelDim, inferCalls, args, lastOut>>]_vars

\* an empty batch has returned while another call's load is still pending
C5_Witness ==
    /\ ret = Returned(ret.caller, "embedBatch", <<>>, <<>>, {})
    /\ ret.caller \in Procs
    /\ pc[ret.caller] = "done"
    /\ promises = <<"pending">>
    /\ inferCalls = 0

\* what the specification says the engine receives for texts under opts
PrefixOf(opts) ==
    LET mode == IF opts.mode = {} THEN "passage" ELSE Val(opts.mode)
        instruction == IF opts.instruction = {} THEN "e5" ELSE Val(opts.instruction)
    IN IF instruction = "none" THEN ""
       ELSE IF mode = "query" THEN "query: " ELSE "passage: "

\* C6: the engine receives one string per text, in order: the text behind "query: " or
\* "passage: " under instruction e5, the text itself under instruction none, with
\* omitted options read as mode passage, instruction e5, normalize true.
C6_PrefixedArguments ==
    \A i \in Procs :
        pc[i] = "awaitInfer"
        => /\ Len(args[i].texts) = Len(call[i].texts)
           /\ \A j \in 1..Len(call[i].texts) :
                  args[i].texts[j] = PrefixOf(call[i].opts) \o call[i].texts[j]
           /\ args[i].normalize =
                  (IF call[i].opts.normalize = {} THEN {TRUE} ELSE call[i].opts.normalize)
           /\ args[i].pooling = "mean"

\* the engine holds a two-text query batch whose instruction was omitted
C6_Witness ==
    \E i \in Procs :
        /\ pc[i] = "awaitInfer"
        /\ call[i].opts = [mode |-> {"query"}, instruction |-> {}, normalize |-> {FALSE}]
        /\ args[i].texts = <<"query: a", "query: b">>

\* C7: an inference failure of call i changes neither the promise nor the dimension,
\* starts no load and touches no other call; and once some call has failed so, a call
\* whose own inference answers with an admissible output still returns its matrix.
C7_InferenceFailureIsLocal ==
    [][/\ \A i \in Procs :
            (pc[i] = "awaitInfer" /\ failure'[i] = "InferenceError")
            => /\ UNCHANGED <<extractorPromise, promises, modelDim>>
               /\ \A j \in Procs \ {i} :
                     /\ pc'[j] = pc[j] /\ call'[j] = call[j]
                     /\ args'[j] = args[j] /\ failure'[j] = failure[j]
       /\ \A j \in Procs :
            (/\ \E i \in Procs : failure[i] = "InferenceError"
             /\ pc[j] = "awaitInfer" /\ pc'[j] # "awaitInfer"
             /\ failure'[j] # "InferenceError"
             /\ Admissible(lastOut'))
            => (ret'.ok /\ ret'.caller = j /\ ret'.rows = toMatrix(lastOut', modelDim).rows)]_vars

\* a call has returned its matrix after another call's inference failed
C7_Witness ==
    /\ EmbedSucceeded
    /\ ret.rows # <<>>
    /\ \E i \in Procs \ {ret.caller} : failure[i] = "InferenceError"
    /\ promises = <<"fulfilled">>

\* C8: a getModelInfo that returns reports a non-null dim.
C8_InfoDimKnown == (ret.op = "getModelInfo" /\ ret.ok) => ret.dim # {}

\* C9: right after a successful embedBatch on a non-empty batch, modelDim is the width
\* of every row returned, here for the outputs that hold one vector per text.
C9_DimIsRowWidth ==
    (EmbedSucceeded /\ Conforming(lastOut, Len(ret.texts)))
        => \A r \in 1..Len(ret.rows) : modelDim = {Len(ret.rows[r])}

\* C10: an inference output of no admissible shape makes the call throw the
\* unexpected-output-shape error and leaves the promise and the dimension as they were.
C10_UnexpectedShapeError ==
    [][\A i \in Procs :
          (/\ pc[i] = "awaitInfer" /\ pc'[i] # "awaitInfer"
           /\ failure'[i] # "InferenceError"
           /\ ~Admissible(lastOut'))
          => /\ failure'[i] = "UnexpectedShape"
             /\ UNCHANGED <<extractorPromise, promises, modelDim>>]_vars

\* the memoized load has failed
LoadFailed == extractorPromise # {} /\ promises[Val(extractorPromise)] = "rejected"

\* C11: once the load has failed, no call has reached the engine, every call that
\* failed did so with the load's error, and nothing has returned but empty-batch
\* embedBatch calls.
C11_LoadFailureShared ==
    LoadFailed
    => /\ inferCalls = 0
       /\ \A i \in Procs : pc[i] \notin {"awaitInfer", "infoResume"}
       /\ \A i \in Procs : pc[i] = "failed" => failure[i] = "LoadError"
       /\ (ret.op # "none" /\ ret.ok)
              => (ret.op = "embedBatch" /\ ret.texts = <<>> /\ ret.rows = <<>>)
       /\ ~ret.ok => ret.err = "LoadError"

\* every call awaited the one load and failed with its error
C11_Witness ==
    /\ promises = <<"rejected">>
    /\ \A i \in Procs : pc[i] = "failed" /\ failure[i] = "LoadError"
    /\ inferCalls = 0

\* the engine answered the last non-empty embedBatch with a tensor it returned from
TensorReturned ==
    ret.op = "embedBatch" /\ ret.ok /\ ret.texts # <<>> /\ lastOut.kind = "tensor"

\* the row-major rows of width d of a flat sequence: n of them
RowMajor(data, n, d) == [i \in 1..n |-> SubSeq(data, (i - 1) * d + 1, i * d)]

\* C12: a tensor-shaped output yields dims[0] rows (one row when dims has rank 1),
\* each as wide as the last dims entry, row i being data[i*width .. (i+1)*width).
C12_TensorRows ==
    TensorReturned
    => LET dims == lastOut.dims
           n == IF Len(dims) = 1 THEN 1 ELSE dims[1]
           d == dims[Len(dims)]
       IN ret.rows = RowMajor(lastOut.data, n, d)

\* the n x d matrix whose row i is the i-th run of d numbers
Matrix(n, d) == [i \in 1..n |-> Run((i - 1) * d, d)]

\* its representation as a sequence of n row buffers
RowBuffers(n, d) == Array([j \in 1..n |-> Item("f32", Matrix(n, d)[j])])

\* C13: for every n x d matrix M (n, d >= 1), the rank-2 tensor {dims: [n, d],
\* data: M flattened} and the sequence of the n row buffers of M both normalize
\* to M, and row j of M as a single flat buffer normalizes to the one-row matrix
\* of that row, so that the results for the rows, concatenated, are M.
C13_RepresentationIndependent ==
    (ret.op = "embedBatch" /\ ret.ok /\ ret.texts # <<>>)
    => \A n \in 1..MaxTexts, d \in 1..MaxDim :
          /\ lastOut = Tensor(<<n, d>>) => ret.rows = Matrix(n, d)
          /\ lastOut = RowBuffers(n, d) => ret.rows = Matrix(n, d)
          /\ \A j \in 1..n : lastOut = FlatRow(j, d) => ret.rows = <<Matrix(n, d)[j]>>

\* the largest matrix came back from its tensor
C13_Witness ==
    /\ ret.op = "embedBatch" /\ ret.ok /\ ret.texts # <<>>
    /\ lastOut = Tensor(<<MaxTexts, MaxDim>>)
    /\ ret.rows = Matrix(MaxTexts, MaxDim)

\* C15: once extractorPromise is non-null no step changes it, whether the load it
\* stands for is pending, has succeeded or has failed; and only a caller's
\* getExtractor installs it.
C15_PromiseNeverReplaced ==
    [][/\ extractorPromise # {} => extractorPromise' = extractorPromise
       /\ extractorPromise' # extractorPromise
              => \E i \in Procs : pc[i] = "idle" /\ pc'[i] = "awaitExtractor"]_vars

\* a call made after the load had failed awaits the very promise that failed
C15_Witness ==
    /\ extractorPromise = {1}
    /\ promises = <<"rejected">>
    /\ \E i, j \in Procs : /\ pc[i] = "failed" /\ failure[i] = "LoadError"
                          /\ pc[j] = "awaitExtractor" /\ awaiting[j] = {1}

\* C16: getModelInfo runs a one-text warmup embedBatch exactly when modelDim is
\* null as it is called; when modelDim is known it returns {model, dim} at once
\* and changes nothing: no load, no engine call. However many calls warm up,
\* there is one load.
C16_WarmupIffDimUnknown ==
    [][/\ \A i \in Procs :
            (pc[i] = "idle" /\ pc'[i] # "idle"
                /\ (\/ call'[i].op = "getModelInfo"
                    \/ ret' # ret /\ ret'.caller = i /\ ret'.op = "getModelInfo"))
            => IF modelDim = {}
               THEN /\ pc'[i] = "awaitExtractor"
                    /\ call'[i].texts = WarmupTexts
                    /\ ret' = ret
               ELSE /\ pc'[i] = "done"
                    /\ ret' = Returned(i, "getModelInfo", <<>>, <<>>, modelDim)
                    /\ UNCHANGED <<extractorPromise, promises, modelDim, call,
                                   awaiting, args, inferCalls, lastOut>>
       /\ Len(promises') <= 1]_vars

\* every caller's getModelInfo has its warmup at the engine, after one load
C16_Witness ==
    /\ \A i \in Procs : pc[i] = "awaitInfer" /\ call[i].op = "getModelInfo"
    /\ inferCalls = NumCalls
    /\ Len(promises) = 1

\* the position of a call in embedBatch: it only moves forward
Rank(p) ==
    IF p = "idle" THEN 0
    ELSE IF p = "awaitExtractor" THEN 1
    ELSE IF p = "awaitInfer" THEN 2
    ELSE IF p = "infoResume" THEN 3
    ELSE 4

\* C17: a call of embedBatch invokes the engine at most once: the engine is
\* invoked only by the step that takes a call from the await of the extractor
\* to the await of the engine's answer, a call never goes back, and a non-empty
\* call whose load succeeded does make that step; when the invocation fails the
\* call throws the engine's error and returns no rows.
C17_NoRetries ==
    [][/\ inferCalls' # inferCalls
            => /\ inferCalls' = inferCalls + 1
               /\ \E i \in Procs :
                     /\ pc[i] = "awaitExtractor" /\ pc'[i] = "awaitInfer"
                     /\ \A j \in Procs \ {i} : pc'[j] = pc[j]
       /\ \A i \in Procs :
            /\ Rank(pc'[i]) >= Rank(pc[i])
            /\ (pc[i] = "awaitExtractor" /\ pc'[i] # pc[i]
                   /\ promises[Val(awaiting[i])] = "fulfilled")
                  => pc'[i] = "awaitInfer" /\ inferCalls' = inferCalls + 1
            /\ (failure'[i] = "InferenceError" /\ failure[i] = "none")
                  => /\ pc[i] = "awaitInfer" /\ pc'[i] = "failed"
                     /\ inferCalls' = inferCalls
                     /\ ~ret'.ok /\ ret'.caller = i /\ ret'.rows = <<>>
                     /\ ret'.err = "InferenceError"]_vars

\* a call's one invocation has failed and the call with it
C17_Witness ==
    \E i \in Procs :
        /\ pc[i] = "failed" /\ failure[i] = "InferenceError"
        /\ inferCalls = 1
        /\ ret = Thrown(i, "embedBatch", ret.texts, "InferenceError")

\* the memoized load has not settled
LoadPending == extractorPromise # {} /\ promises[Val(extractorPromise)] = "pending"

\* C18: while the load is pending no non-empty embedBatch and no warmup
\* getModelInfo has returned or failed, and a call awaiting the load stays where
\* it is; a call returns rows or an info only from the await of its own engine
\* call; empty-batch calls return meanwhile.
C18_NothingBeforeSettled ==
    [][/\ LoadPending'
            => /\ \A i \in Procs : pc'[i] \in {"idle", "awaitExtractor", "done"}
               /\ \A i \in Procs : failure'[i] = "none"
               /\ ret'.op # "none"
                     => (ret'.op = "embedBatch" /\ ret'.ok /\ ret'.texts = <<>>)
       /\ \A i \in Procs :
            /\ (pc[i] = "awaitExtractor" /\ promises[Val(awaiting[i])] = "pending")
                  => pc'[i] = pc[i]
            /\ (pc'[i] # pc[i] /\ pc'[i] \in {"done", "infoResume"})
                  => \/ pc[i] \in {"awaitInfer", "infoResume"}
                     \/ /\ pc[i] = "idle"
                        /\ ret'.caller = i
                        /\ \/ ret'.op = "embedBatch" /\ ret'.texts = <<>>
                           \/ ret'.op = "getModelInfo" /\ modelDim # {}]_vars

\* with the load pending, a call waits for it and an empty-batch call has returned
C18_Witness ==
    /\ LoadPending
    /\ \E i, j \in Procs : /\ pc[i] = "awaitExtractor"
                          /\ pc[j] = "done"
                          /\ ret = Returned(j, "embedBatch", <<>>, <<>>, {})

\* engine calls that have come back with an output
InferReturned ==
    inferCalls - Cardinality({i \in Procs : pc[i] = "awaitInfer"})
               - Cardinality({i \in Procs : failure[i] = "InferenceError"})

\* C19: the engine is invoked only once the load has been started and has
\* succeeded, never while it is pending or after it failed; and modelDim is
\* non-null only when an engine call has returned.
C19_InferenceAfterLoad ==
    [][/\ inferCalls' > inferCalls
            => extractorPromise # {} /\ promises[Val(extractorPromise)] = "fulfilled"
       /\ inferCalls' > 0 => promises' = <<"fulfilled">>
       /\ modelDim' # {} => InferReturned' >= 1
       /\ modelDim' # modelDim
            => \E i \in Procs : pc[i] = "awaitInfer" /\ pc'[i] # "awaitInfer"]_vars

\* the dimension is known from the one engine call that has returned
C19_Witness ==
    /\ modelDim # {}
    /\ inferCalls = 1
    /\ InferReturned = 1
    /\ promises = <<"fulfilled">>

\* the handler answered 200 to a request whose embedBatch got an answer that
\* holds one vector per input, and lastOut is such an answer
RequestServed ==
    /\ res.status = 200
    /\ res.inputs # <<>>
    /\ Conforming(lastOut, Len(res.inputs))
    /\ toMatrix(lastOut, modelDim).err = "none"
    /\ toMatrix(lastOut, modelDim).rows = res.vectors

\* C14: the data of a successful response has one entry per input text, entry i
\* carrying index i and row i of the matrix embedBatch returned, as numbers or
\* through float32ToBase64.
C14_EntryPerInput ==
    RequestServed
    => /\ Len(res.data) = Len(res.inputs)
       /\ \A k \in 1..Len(res.data) :
             /\ res.data[k].index = k - 1
             /\ res.data[k].embedding = IF res.encoding = "base64"
                                        THEN float32ToBase64(res.vectors[k])
                                        ELSE res.vectors[k]

\* C20: the handler calls getModelInfo after embedBatch: resuming with modelDim
\* unknown it starts the warmup (and with it the load, if none was started), also
\* when its input list was empty; resuming with modelDim known it answers at
\* once.  A request that came in with modelDim known has made one engine call,
\* or none for an empty input list; no request makes more than two; and a
\* request is answered 500 when its warmup fails.
C20_InfoAfterEmbed ==
    [][/\ \A i \in Procs :
            (pc[i] = "postResume" /\ pc'[i] # pc[i])
            => IF modelDim = {}
               THEN /\ pc'[i] = "awaitExtractor"
                    /\ call'[i].op = "getModelInfo" /\ call'[i].texts = WarmupTexts
                    /\ extractorPromise' # {} /\ awaiting'[i] = extractorPromise'
                    /\ res' = res
               ELSE /\ res' = Response(i, 200, Data(req[i].vectors, req[i].encoding))
                    /\ inferCalls' = inferCalls
       /\ (res' # res /\ res'.status # 400)
            => /\ res'.infers <= 2
               /\ res'.dimKnown => res'.infers = IF res'.inputs = <<>> THEN 0 ELSE 1
               /\ (res'.inputs = <<>> /\ res'.infers = 1) => ~res'.dimKnown
               /\ (~ret'.ok /\ ret'.caller = res'.caller) => res'.status = 500]_vars

\* a request with an empty input list is answered 500: its embedBatch returned
\* [] without the engine, then its warmup's engine call failed
C20_Witness ==
    /\ res.status = 500
    /\ res.inputs = <<>>
    /\ res.infers = 1
    /\ ~res.dimKnown
    /\ ret = Thrown(res.caller, "getModelInfo", WarmupTexts, "InferenceError")

====
